---- MODULE Spec2Model ----
(***************************************************************************)
(* Model of src/chaos.py: a command-line helper that validates a URL       *)
(* argument, probes for the nuclei executable, runs `nuclei -u <url>` as a *)
(* subprocess and writes its captured standard output to                   *)
(* outputs/<timestamp>-scan.txt.                                           *)
(*                                                                         *)
(* Text (URLs, captured output, file names) is a sequence of one-character *)
(* strings.  Python's None is the empty tuple, a value v that is not None  *)
(* is the one-element tuple <<v>>.                                          *)
(***************************************************************************)
EXTENDS Integers, Sequences, FiniteSets, TLC

VARIABLES
    pc,          \* position of the running program in main()
    argv,        \* sys.argv of the running program (argv[1] is the script)
    url,         \* main's local `url`
    exit_code,   \* main's local `exit_code`: None until line 37 returns
    exitStatus,  \* status the process ended with: None while it runs
    out,         \* diagnostics printed so far by this run, in order
    probe,       \* the `nuclei -version` child process of this run
    scan,        \* the `nuclei -u <url>` child process of this run
    probeCalls,  \* number of subprocess.run(["nuclei","-version"]) calls
    scanCalls,   \* number of subprocess.run(["nuclei","-u",url]) calls
    probe_end,   \* how the probe's subprocess.run ended: None before
    scan_end,    \* how the scan's subprocess.run ended: None before
    scan_output, \* run_nuclei_scan_and_save's local: Unset before line 81
    caught,      \* the exception caught at line 102: None if none
    filepath,    \* run_nuclei_scan_and_save's local `filepath`
    opened,      \* paths this run has opened for writing
    saved,       \* paths this run has written completely and closed
    dirs,        \* directories present in the working directory
    files,       \* the files under outputs/: path -> content
    now,         \* last reading of the system clock (UTC instant)
    tz,          \* time zone of the host
    runs,        \* number of program runs started so far
    prev         \* the last run that ended with status 0

vars == <<pc, argv, url, exit_code, exitStatus, out, probe, scan, probeCalls,
          scanCalls, probe_end, scan_end, scan_output, caught, filepath,
          opened, saved, dirs, files, now, tz, runs, prev>>

-----------------------------------------------------------------------------
(* Bounds of the model *)

\* number of times the program is run, one after the other
MaxRuns == 2

-----------------------------------------------------------------------------
(* Values *)

None == <<>>
Some(v) == <<v>>
\* a local that is not assigned yet: a tuple unlike None and unlike any Some(v)
Unset == <<<<>>, <<>>>>

\* timeout= of the availability probe
ProbeTimeout == 5
\* timeout= of the scan
ScanTimeout == 600
\* returncode of a child killed by SIGKILL
SigKill == 0 - 9

\* str.isspace() on the characters the model draws output from
IsSpace(c) == c \in {" ", "\n", "\t"}

RECURSIVE LStrip(_)
LStrip(s) == IF s # <<>> /\ IsSpace(Head(s)) THEN LStrip(Tail(s)) ELSE s

RECURSIVE RStrip(_)
RStrip(s) ==
    IF s # <<>> /\ IsSpace(s[Len(s)]) THEN RStrip(SubSeq(s, 1, Len(s) - 1)) ELSE s

\* str.strip(): leading and trailing whitespace removed
Strip(s) == RStrip(LStrip(s))

\* truth value of a str: non-empty
Truthy(s) == Len(s) > 0

\* s begins with p
StartsWith(s, p) == Len(s) >= Len(p) /\ SubSeq(s, 1, Len(p)) = p

\* s with its first n characters dropped
Drop(s, n) == SubSeq(s, n + 1, Len(s))

-----------------------------------------------------------------------------
(* Input validation: main, lines 11-24 *)

\* len(sys.argv) < 2
MissingUrl(av) == Len(av) < 2

\* the pattern looked for anywhere in u, as re.search would
UrlPatternSearch(u) ==
    \E k \in 0..Len(u) :
        \/ StartsWith(Drop(u, k), <<"h", "t", "t", "p", ":", "/", "/">>)
        \/ StartsWith(Drop(u, k), <<"h", "t", "t", "p", "s", ":", "/", "/">>)

\* re.compile(r'^https?://').match(u): the literal "http", an optional "s",
\* the literal "://", anchored at the first character, case-sensitive
UrlPatternMatch(u) ==
    /\ StartsWith(u, <<"h", "t", "t", "p">>)
    /\ \/ StartsWith(Drop(u, 4), <<":", "/", "/">>)
       \/ /\ StartsWith(Drop(u, 4), <<"s">>)
          /\ StartsWith(Drop(u, 5), <<":", "/", "/">>)

\* the script name, sys.argv[0]
Script == <<"c", "h", "a", "o", "s", ".", "p", "y">>

HttpUrl == <<"h", "t", "t", "p", ":", "/", "/", "a">>
HttpsUrl == <<"h", "t", "t", "p", "s", ":", "/", "/", "a">>

\* first arguments the model runs the program on
Urls ==
    { HttpUrl, HttpsUrl,
      <<>>,
      <<"a">>,
      <<"H", "T", "T", "P", ":", "/", "/", "a">>,
      <<"h", "t", "t", "p", ":", "/", "a">>,
      <<"h", "t", "t", "p", "s", "s", ":", "/", "/", "a">>,
      <<"f", "t", "p", ":", "/", "/", "a">>,
      <<" ", "h", "t", "t", "p", ":", "/", "/", "a">> }

\* argument lists the model runs the program on: no argument, one argument,
\* one argument followed by a second one
Argvs ==
    {<<Script>>} \cup {<<Script, u>> : u \in Urls \ {HttpsUrl}}
                 \cup {<<Script, u, <<"-", "v">>>> : u \in {HttpsUrl, <<"a">>}}

-----------------------------------------------------------------------------
(* Availability probe: check_nuclei_installed, lines 47-59 *)

ReturnCodes == {0, 2, SigKill}

\* how a subprocess.run call can end: the executable is not found, the spawn
\* fails with another OSError, or the child runs for `duration` and then exits
\* with `returncode`, having written `stdout` and `stderr`
SpawnOutcomes == {"spawned", "FileNotFoundError", "OSError"}

\* how long the probe's child runs, against timeout=5
ProbeDurations == {ProbeTimeout, ProbeTimeout + 1}

\* the probe taken to succeed whenever the child exits, whatever its status
CheckNucleiInstalledAnyExit(end, returncode) == end = "completed"

\* lines 49-59: what check_nuclei_installed returns when subprocess.run ends
\* with `end`: "completed" (with `returncode`), "TimeoutExpired" or
\* "FileNotFoundError"
CheckNucleiInstalled(end, returncode) ==
    IF end \in {"TimeoutExpired", "FileNotFoundError"} THEN FALSE
    ELSE returncode = 0

\* lines 61-75: what activate_venv finds
VenvStates == {"absent", "without python3", "with python3"}

-----------------------------------------------------------------------------
(* Scan runner: run_nuclei_scan, lines 106-161 *)

\* captured standard-output texts the model lets the scanner write: none, only
\* whitespace, a finding, a finding with whitespace around it
Stdouts ==
    { <<>>,
      <<" ", "\n">>,
      <<"x">>,
      <<" ", "x", "\n">> }

\* captured standard-error texts
Stderrs == {<<>>, <<"e">>}

\* how long the scan's child runs, against timeout=600
ScanDurations == {ScanTimeout, ScanTimeout + 1}

\* the killed child's output returned even when there is none
KilledResultAlways(stdout) == Some(stdout)

\* lines 132-139: the child was killed by SIGKILL
KilledResult(stdout) == IF Truthy(Strip(stdout)) THEN Some(stdout) ELSE None

\* the output of a child that exited with a non-zero status thrown away
NonZeroResultNone(stdout) == None

\* lines 143-149: any other non-zero exit status
NonZeroResult(stdout) == IF Truthy(Strip(stdout)) THEN Some(stdout) ELSE None

\* empty or blank output of a child that exited with status 0 taken as none
ZeroResultIfAny(stdout) == IF Truthy(Strip(stdout)) THEN Some(stdout) ELSE None

\* line 151: exit status 0
ZeroResult(stdout) == Some(stdout)

\* lines 131-151: what run_nuclei_scan returns for a child that exited
CompletedResult(returncode, stdout) ==
    IF returncode = SigKill THEN KilledResult(stdout)
    ELSE IF returncode # 0 THEN NonZeroResult(stdout)
    ELSE ZeroResult(stdout)

\* a timeout reported as an empty output
TimeoutResultEmpty == Some(<<>>)

\* lines 153-155: subprocess.TimeoutExpired
TimeoutResult == None

\* lines 156-161: FileNotFoundError and any other Exception
ExceptionResult == None

-----------------------------------------------------------------------------
(* Result persister: run_nuclei_scan_and_save, lines 77-104 *)

\* "%f" prints microseconds: this many in a second
MicrosPerSecond == 1000000
\* [:-3] removes this many trailing characters of the formatted time
CutDigits == 3

SecondsPerMinute == 60
SecondsPerHour == 60 * SecondsPerMinute
SecondsPerDay == 24 * SecondsPerHour

\* The clock counts from 2026-10-25 00:00:00 UTC.  In the zone "Europe/Paris"
\* summer time ends that day at 01:00 UTC: local time is UTC+2 before that
\* instant and UTC+1 from it on.  In the zone "UTC" local time is UTC.
EpochDate == [year |-> 2026, month |-> 10, day |-> 25]
Zones == {"UTC", "Europe/Paris"}
UtcOffset(zone, sec) ==
    IF zone = "UTC" THEN 0
    ELSE IF sec < SecondsPerHour THEN 2 * SecondsPerHour
    ELSE SecondsPerHour

\* instant t, d later
Later(t, d) ==
    [sec  |-> t.sec + d.sec + ((t.usec + d.usec) \div MicrosPerSecond),
     usec |-> (t.usec + d.usec) % MicrosPerSecond]

\* time that can pass between two readings of the clock
Elapsed ==
    { [sec |-> 0, usec |-> 1],
      [sec |-> 0, usec |-> 1001],
      [sec |-> SecondsPerHour, usec |-> 0] }

\* datetime.now(): the naive local date and time at instant t in the zone.
\* The day of the month is right while the clock stays within October.
LocalTime(zone, t) ==
    LET l == t.sec + UtcOffset(zone, t.sec)
    IN  [year        |-> EpochDate.year,
         month       |-> EpochDate.month,
         day         |-> EpochDate.day + (l \div SecondsPerDay),
         hour        |-> (l % SecondsPerDay) \div SecondsPerHour,
         minute      |-> (l % SecondsPerHour) \div SecondsPerMinute,
         second      |-> l % SecondsPerMinute,
         microsecond |-> t.usec]

DigitChars == <<"0", "1", "2", "3", "4", "5", "6", "7", "8", "9">>

\* n in decimal, zero-padded to w digits
RECURSIVE Digits(_, _)
Digits(n, w) ==
    IF w = 0 THEN <<>> ELSE Append(Digits(n \div 10, w - 1), DigitChars[(n % 10) + 1])

\* strftime("%Y%m%d%H%M%S%f")
Strftime(d) ==
    Digits(d.year, 4) \o Digits(d.month, 2) \o Digits(d.day, 2) \o
    Digits(d.hour, 2) \o Digits(d.minute, 2) \o Digits(d.second, 2) \o
    Digits(d.microsecond, 6)

\* line 92: strftime(...)[:-3]
Timestamp(d) == SubSeq(Strftime(d), 1, Len(Strftime(d)) - CutDigits)

\* lines 93-94: os.path.join("outputs", f"{timestamp}-scan.txt")
OutputDir == <<"o", "u", "t", "p", "u", "t", "s">>
FilePath(timestamp) ==
    OutputDir \o <<"/">> \o timestamp \o <<"-", "s", "c", "a", "n", ".", "t", "x", "t">>

\* how os.makedirs(output_dir, exist_ok=True) can end
MkdirOutcomes == {"ok", "OSError"}

\* how `with open(filepath, "w") as f: f.write(scan_output)` can end: the file
\* is written and closed, open() fails, or write() fails after open() has
\* created (or truncated) the file
WriteOutcomes == {"ok", "open OSError", "write OSError"}

\* the except clause returning 0 as well
SaveResultAlwaysZero(io) == IF io = "ok" THEN 0 ELSE 0

\* lines 89-104: the value run_nuclei_scan_and_save returns after an attempt
\* on the file system: 0 at line 100, 1 from the except clause
SaveResult(io) == IF io = "ok" THEN 0 ELSE 1

\* the strict prefixes of s: what a failed write() can leave in the file
StrictPrefixes(s) == {SubSeq(s, 1, n) : n \in 0..(Len(s) - 1)}

-----------------------------------------------------------------------------
(* The program *)

\* no file at all: a function with an empty domain
NoFiles == <<>>

Init ==
    /\ pc = "main"
    /\ argv \in Argvs
    /\ url = None
    /\ exit_code = None
    /\ exitStatus = None
    /\ out = <<>>
    /\ probe = "none"
    /\ scan = "none"
    /\ probeCalls = 0
    /\ scanCalls = 0
    /\ probe_end = None
    /\ scan_end = None
    /\ scan_output = Unset
    /\ caught = None
    /\ filepath = None
    /\ opened = {}
    /\ saved = {}
    /\ dirs \in {{}, {OutputDir}}
    /\ files = NoFiles
    /\ now = [sec |-> 0, usec |-> 0]
    /\ tz \in Zones
    /\ runs = 1
    /\ prev = None

\* what no step of a run changes
fixed == <<argv, tz, runs, prev>>

\* sys.exit(status) after printing `lines`
Exit(lines, status) ==
    /\ out' = out \o lines
    /\ exitStatus' = Some(status)
    /\ pc' = "exited"

\* the argument count checked, the usage line forgotten
MainArgsNoUsage ==
    /\ pc = "main"
    /\ IF MissingUrl(argv)
       THEN Exit(<<"error: provide a url">>, 1) /\ UNCHANGED url
       ELSE /\ url' = Some(argv[2])
            /\ pc' = "url"
            /\ UNCHANGED <<out, exitStatus>>
    /\ UNCHANGED <<exit_code, probe, scan, probeCalls, scanCalls, probe_end,
                   scan_end, scan_output, caught, filepath, opened, saved, dirs,
                   files, now, fixed>>

\* lines 11-17: the argument count
MainArgs ==
    /\ pc = "main"
    /\ IF MissingUrl(argv)
       THEN Exit(<<"error: provide a url", "usage">>, 1) /\ UNCHANGED url
       ELSE /\ url' = Some(argv[2])
            /\ pc' = "url"
            /\ UNCHANGED <<out, exitStatus>>
    /\ UNCHANGED <<exit_code, probe, scan, probeCalls, scanCalls, probe_end,
                   scan_end, scan_output, caught, filepath, opened, saved, dirs,
                   files, now, fixed>>

\* lines 19-24: the URL format
MainUrl ==
    /\ pc = "url"
    /\ IF ~UrlPatternMatch(url[1])
       THEN Exit(<<"error: provide a valid url", "usage">>, 1)
       ELSE pc' = "probe" /\ UNCHANGED <<out, exitStatus>>
    /\ UNCHANGED <<url, exit_code, probe, scan, probeCalls, scanCalls,
                   probe_end, scan_end, scan_output, caught, filepath, opened,
                   saved, dirs, files, now, fixed>>

\* lines 27-30: main after check_nuclei_installed has returned `installed`
AfterProbe(installed) ==
    IF ~installed
    THEN Exit(<<"error: nuclei is not installed", "install hint">>, 1)
    ELSE pc' = "venv" /\ UNCHANGED <<out, exitStatus>>

\* lines 27, 49-56: check_nuclei_installed calls subprocess.run, which spawns
\* `nuclei -version`.  An OSError other than FileNotFoundError is caught
\* nowhere: the interpreter prints the traceback and exits with status 1.
ProbeCall ==
    /\ pc = "probe"
    /\ probeCalls' = probeCalls + 1
    /\ \E s \in SpawnOutcomes :
         CASE s = "spawned" ->
                /\ probe' = "running"
                /\ pc' = "probing"
                /\ UNCHANGED <<out, exitStatus, probe_end>>
           [] s = "FileNotFoundError" ->
                /\ probe_end' = Some([end |-> "FileNotFoundError"])
                /\ AfterProbe(CheckNucleiInstalled("FileNotFoundError", 0))
                /\ UNCHANGED probe
           [] s = "OSError" ->
                /\ probe_end' = Some([end |-> "OSError"])
                /\ Exit(<<"traceback">>, 1)
                /\ UNCHANGED probe
    /\ UNCHANGED <<url, exit_code, scan, scanCalls, scan_end, scan_output,
                   caught, filepath, opened, saved, dirs, files, now, fixed>>

\* lines 50-59, 27-30: subprocess.run returns or raises TimeoutExpired, having
\* killed and reaped the child that outlived the timeout
ProbeReturn ==
    /\ pc = "probing"
    /\ \E d \in ProbeDurations, returncode \in ReturnCodes :
         IF d > ProbeTimeout
         THEN /\ probe' = "killed"
              /\ probe_end' = Some([end |-> "TimeoutExpired"])
              /\ AfterProbe(CheckNucleiInstalled("TimeoutExpired", returncode))
         ELSE /\ probe' = "exited"
              /\ probe_end' =
                     Some([end |-> "completed", returncode |-> returncode])
              /\ AfterProbe(CheckNucleiInstalled("completed", returncode))
    /\ UNCHANGED <<url, exit_code, scan, probeCalls, scanCalls, scan_end,
                   scan_output, caught, filepath, opened, saved, dirs, files,
                   now, fixed>>

\* lines 61-75: what activate_venv prints
VenvLines(v) ==
    IF v = "absent" THEN <<>>
    ELSE IF v = "with python3"
         THEN <<"venv found", "using venv python">>
         ELSE <<"venv found", "venv python not detected">>

\* lines 33-36: activate_venv and the announcement of the scan
ActivateVenv ==
    /\ pc = "venv"
    /\ \E v \in VenvStates : out' = out \o VenvLines(v) \o <<"starting scan">>
    /\ pc' = "scan"
    /\ UNCHANGED <<url, exit_code, exitStatus, probe, scan, probeCalls,
                   scanCalls, probe_end, scan_end, scan_output, caught,
                   filepath, opened, saved, dirs, files, now, fixed>>

\* lines 128-147: what run_nuclei_scan prints for a child that exited
CompletedLines(returncode, stderr) ==
    <<"nuclei output">> \o
    ( IF returncode = SigKill
      THEN <<"warning: killed by SIGKILL", "too much memory or cpu">>
      ELSE IF returncode # 0
           THEN <<"nuclei exited with code">> \o
                (IF Truthy(stderr) THEN <<"nuclei error output">> ELSE <<>>)
           ELSE <<>> )

\* lines 81, 109-126, 156-161: run_nuclei_scan_and_save calls run_nuclei_scan,
\* which prints the command and calls subprocess.run, which spawns
\* `nuclei -u <url>`
ScanCall ==
    /\ pc = "scan"
    /\ scanCalls' = scanCalls + 1
    /\ \E s \in SpawnOutcomes :
         CASE s = "spawned" ->
                /\ scan' = "running"
                /\ out' = Append(out, "debug: command")
                /\ pc' = "scanning"
                /\ UNCHANGED <<scan_end, scan_output>>
           [] s = "FileNotFoundError" ->
                /\ scan_end' = Some([end |-> "FileNotFoundError"])
                /\ out' = out \o <<"debug: command", "error: nuclei not found">>
                /\ scan_output' = ExceptionResult
                /\ pc' = "save"
                /\ UNCHANGED scan
           [] s = "OSError" ->
                /\ scan_end' = Some([end |-> "OSError"])
                /\ out' = out \o <<"debug: command", "unexpected error">>
                /\ scan_output' = ExceptionResult
                /\ pc' = "save"
                /\ UNCHANGED scan
    /\ UNCHANGED <<url, exit_code, exitStatus, probe, probeCalls, probe_end,
                   caught, filepath, opened, saved, dirs, files, now, fixed>>

\* lines 119-155: subprocess.run returns the completed child's result, or
\* raises TimeoutExpired, having killed and reaped the child that outlived
\* the timeout
ScanReturn ==
    /\ pc = "scanning"
    /\ \E d \in ScanDurations, returncode \in ReturnCodes,
          stdout \in Stdouts, stderr \in Stderrs :
         IF d > ScanTimeout
         THEN /\ scan' = "killed"
              /\ scan_end' = Some([end |-> "TimeoutExpired"])
              /\ out' = Append(out, "scan timed out")
              /\ scan_output' = TimeoutResult
         ELSE /\ scan' = "exited"
              /\ scan_end' =
                     Some([end |-> "completed", returncode |-> returncode,
                           stdout |-> stdout, stderr |-> stderr])
              /\ out' = out \o CompletedLines(returncode, stderr)
              /\ scan_output' = CompletedResult(returncode, stdout)
    /\ pc' = "save"
    /\ UNCHANGED <<url, exit_code, exitStatus, probe, probeCalls, scanCalls,
                   probe_end, caught, filepath, opened, saved, dirs, files,
                   now, fixed>>

\* a scan without output run again
SaveNoOutputRetry ==
    /\ pc = "save"
    /\ scan_output = None
    /\ out' = Append(out, "scan failed or returned no output")
    /\ scan_output' = Unset
    /\ pc' = "scan"
    /\ UNCHANGED <<url, exit_code, exitStatus, probe, scan, probeCalls,
                   scanCalls, probe_end, scan_end, caught, filepath, opened,
                   saved, dirs, files, now, fixed>>

\* lines 83-85: run_nuclei_scan returned None
SaveNoOutput ==
    /\ pc = "save"
    /\ scan_output = None
    /\ out' = Append(out, "scan failed or returned no output")
    /\ exit_code' = Some(1)
    /\ pc' = "report"
    /\ UNCHANGED <<url, exitStatus, probe, scan, probeCalls, scanCalls,
                   probe_end, scan_end, scan_output, caught, filepath, opened,
                   saved, dirs, files, now, fixed>>

\* lines 83, 88-89, 102-104: os.makedirs("outputs", exist_ok=True); it cannot
\* fail when the directory is there
SaveMakeDirs ==
    /\ pc = "save"
    /\ scan_output # None
    /\ \E m \in MkdirOutcomes :
         IF m = "ok"
         THEN /\ dirs' = dirs \cup {OutputDir}
              /\ pc' = "stamp"
              /\ UNCHANGED <<out, exit_code, caught>>
         ELSE /\ OutputDir \notin dirs
              /\ caught' = Some(m)
              /\ out' = Append(out, "error running scan")
              /\ exit_code' = Some(SaveResult(m))
              /\ pc' = "report"
              /\ UNCHANGED dirs
    /\ UNCHANGED <<url, exitStatus, probe, scan, probeCalls, scanCalls,
                   probe_end, scan_end, scan_output, filepath, opened, saved,
                   files, now, fixed>>

\* lines 92-94: the clock is read, some time after its last reading, and the
\* file's path is derived from the local time
SaveStamp ==
    /\ pc = "stamp"
    /\ \E d \in Elapsed : now' = Later(now, d)
    /\ filepath' = Some(FilePath(Timestamp(LocalTime(tz, now'))))
    /\ pc' = "write"
    /\ UNCHANGED <<url, exit_code, exitStatus, out, probe, scan, probeCalls,
                   scanCalls, probe_end, scan_end, scan_output, caught, opened,
                   saved, dirs, files, fixed>>

\* lines 97-104: the file is opened for writing (created, or truncated when it
\* is there), written and closed
SaveWrite ==
    /\ pc = "write"
    /\ \E io \in WriteOutcomes :
         /\ CASE io = "ok" ->
                   /\ files' = (filepath[1] :> scan_output[1]) @@ files
                   /\ opened' = opened \cup {filepath[1]}
                   /\ saved' = saved \cup {filepath[1]}
                   /\ out' = Append(out, "scan results saved")
                   /\ UNCHANGED caught
              [] io = "open OSError" ->
                   /\ caught' = Some(io)
                   /\ out' = Append(out, "error running scan")
                   /\ UNCHANGED <<files, opened, saved>>
              [] io = "write OSError" ->
                   /\ \E part \in StrictPrefixes(scan_output[1]) :
                        files' = (filepath[1] :> part) @@ files
                   /\ opened' = opened \cup {filepath[1]}
                   /\ caught' = Some(io)
                   /\ out' = Append(out, "error running scan")
                   /\ UNCHANGED saved
         /\ exit_code' = Some(SaveResult(io))
    /\ pc' = "report"
    /\ UNCHANGED <<url, exitStatus, probe, scan, probeCalls, scanCalls,
                   probe_end, scan_end, scan_output, filepath, dirs, now, fixed>>

\* lines 37-45: the summary line and sys.exit(exit_code)
MainReport ==
    /\ pc = "report"
    /\ Exit(<<IF exit_code = Some(0) THEN "scan completed successfully"
              ELSE "scan completed with errors or warnings">>, exit_code[1])
    /\ UNCHANGED <<url, exit_code, probe, scan, probeCalls, scanCalls,
                   probe_end, scan_end, scan_output, caught, filepath, opened,
                   saved, dirs, files, now, fixed>>

\* lines 163-164: the program is run again, in the same working directory,
\* after the previous run has exited.  `prev` keeps what the previous run
\* saved when it ended with status 0.
NewRun ==
    /\ pc = "exited"
    /\ runs < MaxRuns
    /\ runs' = runs + 1
    /\ prev' = IF exitStatus = Some(0)
               THEN Some([url |-> url[1], at |-> now, filepath |-> filepath[1],
                          text |-> scan_output[1]])
               ELSE None
    /\ argv' \in Argvs
    /\ pc' = "main"
    /\ url' = None
    /\ exit_code' = None
    /\ exitStatus' = None
    /\ out' = <<>>
    /\ probe' = "none"
    /\ scan' = "none"
    /\ probeCalls' = 0
    /\ scanCalls' = 0
    /\ probe_end' = None
    /\ scan_end' = None
    /\ scan_output' = Unset
    /\ caught' = None
    /\ filepath' = None
    /\ opened' = {}
    /\ saved' = {}
    /\ UNCHANGED <<dirs, files, now, tz>>

Next ==
    \/ MainArgs
    \/ MainUrl
    \/ ProbeCall
    \/ ProbeReturn
    \/ ActivateVenv
    \/ ScanCall
    \/ ScanReturn
    \/ SaveNoOutput
    \/ SaveMakeDirs
    \/ SaveStamp
    \/ SaveWrite
    \/ MainReport
    \/ NewRun

Spec == Init /\ [][Next]_vars

-----------------------------------------------------------------------------
(* Properties *)

Http == <<"h", "t", "t", "p", ":", "/", "/">>
Https == <<"h", "t", "t", "p", "s", ":", "/", "/">>

\* u begins with "http://" or with "https://"
BeginsHttp(u) == StartsWith(u, Http) \/ StartsWith(u, Https)

\* the argument list has no URL argument, or one that does not begin so
BadInput == MissingUrl(argv) \/ ~BeginsHttp(argv[2])

\* this run has not called the scanner, neither to probe nor to scan
NoScannerCall ==
    probeCalls = 0 /\ scanCalls = 0 /\ probe = "none" /\ scan = "none"

\* this run has neither created nor written a file
NoFileWritten == opened = {} /\ saved = {} /\ filepath = None

\* this run has written `text`, and nothing else, to one file under outputs/
SavedExactly(text) ==
    /\ filepath # None
    /\ StartsWith(filepath[1], OutputDir \o <<"/">>)
    /\ opened = {filepath[1]}
    /\ saved = {filepath[1]}
    /\ filepath[1] \in DOMAIN files
    /\ files[filepath[1]] = text

\* the scan's child has exited by itself
ScanCompleted == scan_end # None /\ scan_end[1].end = "completed"

\* s has a character that is not whitespace
HasNonSpace(s) == \E i \in 1..Len(s) : ~IsSpace(s[i])

\* C1: in a run whose argument list has no URL argument, or whose first
\* argument does not begin with "http://" or "https://", the program never
\* gets past the input checks: the scanner is not called, no file is written,
\* and the run ends with status 1.
C1_BadInputNeverScans ==
    BadInput =>
        /\ pc \in {"main", "url", "exited"}
        /\ NoScannerCall
        /\ NoFileWritten
        /\ pc = "exited" => exitStatus = Some(1)

\* a run has ended on a first argument that has the right letters in the
\* wrong case, or a space before them
C1_Witness ==
    /\ pc = "exited"
    /\ ~MissingUrl(argv)
    /\ ~BeginsHttp(argv[2])
    /\ Len(argv[2]) > Len(Http)
    /\ exitStatus = Some(1)

\* the probe has ended with a non-zero status, a timeout or not-found
ProbeFailed ==
    /\ probe_end # None
    /\ \/ probe_end[1].end \in {"TimeoutExpired", "FileNotFoundError"}
       \/ probe_end[1].end = "completed" /\ probe_end[1].returncode # 0

\* C2: once the availability probe has ended with a non-zero exit status, a
\* timeout or executable-not-found, the run has ended with status 1, the scan
\* has not been launched and no file is written.
C2_ProbeFailureStopsRun ==
    ProbeFailed =>
        /\ pc = "exited"
        /\ exitStatus = Some(1)
        /\ scanCalls = 0
        /\ scan = "none"
        /\ NoFileWritten

\* a run has ended after a probe that ran and exited with a non-zero status
C2_Witness ==
    /\ pc = "exited"
    /\ probe_end # None
    /\ probe_end[1].end = "completed"
    /\ probe_end[1].returncode # 0

\* C3: when the scan's child has exited with status 0 and captured output S
\* (empty or not), run_nuclei_scan has returned S; and if the run has ended
\* without a file-system error, it has written exactly S to one file under
\* outputs/ and ended with status 0.
C3_ZeroExitSaved ==
    (ScanCompleted /\ scan_end[1].returncode = 0) =>
        /\ scan_output = Some(scan_end[1].stdout)
        /\ (pc = "exited" /\ caught = None) =>
               /\ SavedExactly(scan_end[1].stdout)
               /\ exitStatus = Some(0)

\* a run has ended with status 0 after a scan that exited with status 0 and
\* wrote nothing
C3_Witness ==
    /\ pc = "exited"
    /\ ScanCompleted
    /\ scan_end[1].returncode = 0
    /\ scan_end[1].stdout = <<>>
    /\ exitStatus = Some(0)
    /\ files[filepath[1]] = <<>>

\* C4 as stated: when the scan's child has exited with a non-zero status and
\* non-empty captured output S, run_nuclei_scan has returned S; and when the
\* run has ended, it has written exactly S to a file and ended with status 0.
C4_NonEmptyPreserved ==
    (ScanCompleted /\ scan_end[1].returncode # 0 /\ scan_end[1].stdout # <<>>) =>
        /\ scan_output = Some(scan_end[1].stdout)
        /\ pc = "exited" =>
               /\ SavedExactly(scan_end[1].stdout)
               /\ exitStatus = Some(0)

\* C4 as amended: when the scan's child has exited with a non-zero status and
\* captured output S that has a character other than whitespace,
\* run_nuclei_scan has returned S; and if the run has ended without a
\* file-system error, it has written exactly S to one file and ended with
\* status 0.  When S has only whitespace, or nothing, run_nuclei_scan has
\* returned None, no file is written and the run ends with status 1.
C4_NonBlankPreserved ==
    (ScanCompleted /\ scan_end[1].returncode # 0) =>
        IF HasNonSpace(scan_end[1].stdout)
        THEN /\ scan_output = Some(scan_end[1].stdout)
             /\ (pc = "exited" /\ caught = None) =>
                    /\ SavedExactly(scan_end[1].stdout)
                    /\ exitStatus = Some(0)
        ELSE /\ scan_output = None
             /\ NoFileWritten
             /\ pc = "exited" => exitStatus = Some(1)

\* a run has ended with status 0 after a scan that exited with a status other
\* than 0 and -9 and wrote a finding with whitespace around it
C4_Witness ==
    /\ pc = "exited"
    /\ ScanCompleted
    /\ scan_end[1].returncode \notin {0, SigKill}
    /\ HasNonSpace(scan_end[1].stdout)
    /\ IsSpace(Head(scan_end[1].stdout))
    /\ exitStatus = Some(0)
    /\ files[filepath[1]] = scan_end[1].stdout

\* C5: when the scan's child has ended with status -9 and empty captured
\* output, run_nuclei_scan has returned None, no file is written, and the run
\* ends with status 1.
C5_KilledEmptyFails ==
    (ScanCompleted /\ scan_end[1].returncode = SigKill
                   /\ scan_end[1].stdout = <<>>) =>
        /\ scan_output = None
        /\ NoFileWritten
        /\ pc \in {"save", "report", "exited"}
        /\ pc = "exited" => exitStatus = Some(1)

\* a run has ended after a scan that was killed without any output
C5_Witness ==
    /\ pc = "exited"
    /\ ScanCompleted
    /\ scan_end[1].returncode = SigKill
    /\ scan_end[1].stdout = <<>>
    /\ exitStatus = Some(1)

\* C6: when the scan's child has not completed within the timeout,
\* run_nuclei_scan has returned None, the child has been killed and is not
\* running, the scan has been launched once and not again, no file is
\* written, and the run ends with status 1.
C6_TimeoutFails ==
    (scan_end # None /\ scan_end[1].end = "TimeoutExpired") =>
        /\ scan_output = None
        /\ scan = "killed"
        /\ scanCalls = 1
        /\ NoFileWritten
        /\ pc \in {"save", "report", "exited"}
        /\ pc = "exited" => exitStatus = Some(1)

\* a run has ended after a scan that timed out
C6_Witness ==
    /\ pc = "exited"
    /\ scan_end # None
    /\ scan_end[1].end = "TimeoutExpired"
    /\ exitStatus = Some(1)
    /\ scan # "running"

\* the scan ran to its end and this run saved what it returned
ScanRanAndSaved ==
    /\ scan = "exited"
    /\ scan_output \notin {Unset, None}
    /\ SavedExactly(scan_output[1])

\* C7: a run that has ended has status 0 or 1; the status is 0 exactly when
\* the scan ran and its output was saved; bad input, a failed probe, a scan
\* without output and a caught file-system error each give status 1.
C7_ExitStatus ==
    pc = "exited" =>
        /\ exitStatus \in {Some(0), Some(1)}
        /\ exitStatus = Some(0) <=> ScanRanAndSaved
        /\ (BadInput \/ ProbeFailed \/ scan_output = None \/ caught # None)
               => exitStatus = Some(1)

\* a run has ended with status 1 after write() failed on the file it had
\* created
C7_Witness ==
    /\ pc = "exited"
    /\ caught = Some("write OSError")
    /\ opened # {}
    /\ exitStatus = Some(1)

\* one millisecond, in microseconds
MicrosPerMilli == 10 ^ CutDigits

\* instant t2 is more than one millisecond after instant t1
MoreThanOneMsApart(t1, t2) ==
    \/ t2.sec > t1.sec + 1
    \/ t2.sec = t1.sec + 1 /\ MicrosPerSecond + t2.usec - t1.usec > MicrosPerMilli
    \/ t2.sec = t1.sec /\ t2.usec - t1.usec > MicrosPerMilli

\* this run and the run before it have both ended with status 0, on the same
\* URL, and named their files more than one millisecond apart
TwoSuccessfulRunsApart ==
    /\ pc = "exited"
    /\ exitStatus = Some(0)
    /\ prev # None
    /\ prev[1].url = url[1]
    /\ MoreThanOneMsApart(prev[1].at, now)

\* C8: two consecutive successful runs on the same URL, more than one
\* millisecond apart, have written two files of different names, and the
\* first run's file still holds what the first run wrote.
C8_DistinctFiles ==
    TwoSuccessfulRunsApart =>
        /\ filepath[1] # prev[1].filepath
        /\ prev[1].filepath \in DOMAIN files
        /\ files[prev[1].filepath] = prev[1].text

\* C8 where local time has a fixed offset from UTC: in the zone "UTC" the two
\* runs of C8 do write two files of different names, and the first is kept.
C8_DistinctFilesFixedOffset == tz = "UTC" => C8_DistinctFiles

\* C9 as stated: in a run whose argument list has not exactly one positional
\* argument, the scanner is not called, and the run ends with the usage
\* message and status 1.
C9_ExactlyOneArgument ==
    Len(argv) - 1 # 1 =>
        /\ NoScannerCall
        /\ pc = "exited" => (exitStatus = Some(1) /\ \E i \in DOMAIN out : out[i] = "usage")

\* C9 as amended: in a run whose argument list has no positional argument,
\* the scanner is not called, and the run ends with the usage message and
\* status 1.
C9_AtLeastOneArgument ==
    Len(argv) - 1 = 0 =>
        /\ NoScannerCall
        /\ pc \in {"main", "exited"}
        /\ pc = "exited" => (exitStatus = Some(1) /\ \E i \in DOMAIN out : out[i] = "usage")

\* a run without any argument has ended
C9_Witness ==
    /\ pc = "exited"
    /\ Len(argv) = 1
    /\ exitStatus = Some(1)

\* the order of the steps of a run
PcRank(p) ==
    CASE p = "main" -> 1
      [] p = "url" -> 2
      [] p = "probe" -> 3
      [] p = "probing" -> 4
      [] p = "venv" -> 5
      [] p = "scan" -> 6
      [] p = "scanning" -> 7
      [] p = "save" -> 8
      [] p = "stamp" -> 9
      [] p = "write" -> 10
      [] p = "report" -> 11
      [] p = "exited" -> 12

\* in a run the probe and the scan are each launched at most once, the scan
\* only after the probe's child has exited with status 0, never both at a
\* time; at most one file is opened, and only after the scan's child has
\* exited and run_nuclei_scan has returned an output
StepsOnce ==
    /\ probeCalls <= 1
    /\ scanCalls <= 1
    /\ scanCalls = 1 =>
           /\ probeCalls = 1
           /\ probe = "exited"
           /\ probe_end = Some([end |-> "completed", returncode |-> 0])
    /\ ~(probe = "running" /\ scan = "running")
    /\ Cardinality(opened) <= 1
    /\ opened # {} =>
           /\ scan = "exited"
           /\ scan_output \notin {Unset, None}

\* C10: StepsOnce holds throughout, and every step of a run moves the
\* program forward: no step goes back to an earlier one after a failure.
C10_ForwardOnce ==
    /\ []StepsOnce
    /\ [][runs' = runs => PcRank(pc') > PcRank(pc)]_vars

\* a run has gone through every step once and ended with status 0
C10_Witness ==
    /\ pc = "exited"
    /\ probeCalls = 1
    /\ scanCalls = 1
    /\ Cardinality(opened) = 1
    /\ exitStatus = Some(0)

====
